---- MODULE Spec2Model ----
(***************************************************************************)
(* Model of js_modules/dagit/src/runs/LogsProvider.tsx: the LogsProvider   *)
(* React component that subscribes to the log stream of one pipeline run,  *)
(* accumulates the events it receives, keeps the run's status in the       *)
(* Apollo cache in sync and renders a filtered view of the log.            *)
(***************************************************************************)
EXTENDS Integers, Sequences, FiniteSets, TLC

\* ------------------------------------------------------------------------
\* Bounds of the model
\* ------------------------------------------------------------------------
MaxNodes == 2       \* longest accumulated sequence
MaxBatch == 3       \* size of a delivered batch: its messages plus their events
MaxSubs == 2        \* subscriptions opened over the component's life
MaxValues == 2      \* entries of filter.values

\* ------------------------------------------------------------------------
\* Values
\* ------------------------------------------------------------------------
\* A nullable value is a sequence of length 0 (null/undefined) or 1.
Null == << >>

Some(v) == << v >>

RunIds == {"r1", "r2"}

\* props.runId may be the empty string (no run selected)
PropRunIds == RunIds \cup {""}

MarkerTypenames ==
  {"PipelineStartEvent", "PipelineSuccessEvent", "PipelineFailureEvent",
   "PipelineInitFailureEvent"}

\* the event kinds of RunPipelineRunEventFragment the model delivers
Typenames == MarkerTypenames \cup {"LogMessageEvent"}

\* the kinds delivered where whole sessions are explored
SessionTypenames == {"PipelineStartEvent", "PipelineSuccessEvent"}

\* sequences over S of length at most n
SeqUpTo(S, n) == UNION {[1..k -> S] : k \in 0..n}

\* the events of run r as the server sends them (MessageEvent { runId } and
\* the event fragment's __typename)
EventsOf(r, T) ==
  {IF t = "LogMessageEvent"
   THEN [__typename |-> t, runId |-> r, level |-> "INFO"]
   ELSE [__typename |-> t, runId |-> r] : t \in T}

\* the PipelineRunLogsSubscription payloads of run r with at most n events
MessagesOf(r, T, n) ==
  {[__typename |-> "PipelineRunLogsSubscriptionFailure", messages |-> << >>]}
  \cup {[__typename |-> "PipelineRunLogsSubscriptionSuccess", messages |-> es] :
          es \in SeqUpTo(EventsOf(r, T), n)}

RECURSIVE CountEvents(_)
CountEvents(messages) ==
  IF messages = << >> THEN 0
  ELSE Len(Head(messages).messages) + CountEvents(Tail(messages))

\* the batches a channel of run r may deliver while sessions are explored:
\* at least one message, messages plus events at most MaxBatch
BatchesOf ==
  [r \in RunIds |->
     UNION {{b \in [1..k -> MessagesOf(r, SessionTypenames, MaxBatch - k)] :
               k + CountEvents(b) <= MaxBatch} : k \in 1..MaxBatch}]

\* the batches delivered where a single batch is studied: every event kind
SingleBatchesOf ==
  [r \in RunIds |->
     UNION {{b \in [1..k -> MessagesOf(r, Typenames, MaxBatch - k)] :
               k + CountEvents(b) <= MaxBatch} : k \in 1..MaxBatch}]

\* ------------------------------------------------------------------------
\* State
\* ------------------------------------------------------------------------
VARIABLES
  pc,            \* lifecycle of the component: constructed, mounted, unmounted
  runId,         \* this.props.runId
  nodes,         \* this.state.nodes: Null or Some(sequence of keyed events)
  subs,          \* every DirectGraphQLSubscription constructed so far
  subscription,  \* this._subscription: 0 (undefined) or an index into subs
  cache,         \* Apollo cache: run id -> Null or Some(PipelineRun fragment)
  last,          \* the most recent step, its arguments and the state it started in
  session,       \* shape of the deliveries since the last subscribeToRun
  delivered,     \* the events delivered since the last subscribeToRun
  filter,        \* this.props.filter
  selectedSteps, \* this.props.selectedSteps
  rendered,      \* what the children function received at the last render
  handler        \* Null, or Some(the locals of an onHandleMessages under way)

vars == <<pc, runId, nodes, subs, subscription, cache, last, session, delivered,
          filter, selectedSteps, rendered, handler>>

\* ------------------------------------------------------------------------
\* render
\* ------------------------------------------------------------------------
\* the `loaded` the children function receives
Loaded == nodes # Null

\* the `allNodes` the children function receives
AllNodes == IF nodes = Null THEN << >> ELSE nodes[1]

\* the text the filter inspects (message, stepKey, timestamp, filter value)
\* is a sequence of one-character strings
Upper == <<"A", "B", "C", "D", "E", "F", "G", "H", "I", "J", "K", "L", "M",
           "N", "O", "P", "Q", "R", "S", "T", "U", "V", "W", "X", "Y", "Z">>
Lower == <<"a", "b", "c", "d", "e", "f", "g", "h", "i", "j", "k", "l", "m",
           "n", "o", "p", "q", "r", "s", "t", "u", "v", "w", "x", "y", "z">>
Digits == <<"0", "1", "2", "3", "4", "5", "6", "7", "8", "9">>

\* String.prototype.toLowerCase
ToLowerCase(s) ==
  [i \in 1..Len(s) |->
     IF \E k \in 1..Len(Upper) : Upper[k] = s[i]
     THEN Lower[CHOOSE k \in 1..Len(Upper) : Upper[k] = s[i]]
     ELSE s[i]]

\* String.prototype.includes
Includes(s, sub) ==
  \E i \in 0..(Len(s) - Len(sub)) : SubSeq(s, i + 1, i + Len(sub)) = sub

\* Number(node.timestamp) of a string of decimal digits
RECURSIVE Number(_)
Number(s) ==
  IF s = << >> THEN 0
  ELSE Number(SubSeq(s, 1, Len(s) - 1)) * 10
       + ((CHOOSE k \in 1..Len(Digits) : Digits[k] = s[Len(s)]) - 1)

\* the characters of node.__typename
TypenameChars(t) ==
  CASE t = "LogMessageEvent" ->
         <<"L", "o", "g", "M", "e", "s", "s", "a", "g", "e", "E", "v", "e", "n", "t">>
    [] t = "EngineEvent" ->
         <<"E", "n", "g", "i", "n", "e", "E", "v", "e", "n", "t">>
    [] t = "StepMaterializationEvent" ->
         <<"S", "t", "e", "p", "M", "a", "t", "e", "r", "i", "a", "l", "i", "z",
           "a", "t", "i", "o", "n", "E", "v", "e", "n", "t">>
    [] t = "PipelineStartEvent" ->
         <<"P", "i", "p", "e", "l", "i", "n", "e", "S", "t", "a", "r", "t",
           "E", "v", "e", "n", "t">>

\* enum LogLevel
LogLevel == {"DEBUG", "INFO", "WARNING", "ERROR", "CRITICAL", "EVENT"}

\* GetDefaultLogFilter() where the location carries no q
GetDefaultLogFilter ==
  [since |-> 0,
   values |-> << >>,
   levels |-> [[key \in LogLevel |-> TRUE] EXCEPT !["DEBUG"] = FALSE]]

\* a slip in the level: a structured event is looked up under its own level
EffectiveLevelOwn(node) ==
  IF "level" \in DOMAIN node THEN node.level ELSE "undefined"

\* const l = node.__typename === 'LogMessageEvent' ? node.level : 'EVENT'
EffectiveLevel(node) ==
  IF node.__typename = "LogMessageEvent" THEN node.level ELSE "EVENT"

\* a slip in the lookup: a level the filter does not name is let through
LevelEnabledDefaultAllow(levels, l) == l \notin DOMAIN levels \/ levels[l]

\* filter.levels[l] is truthy
LevelEnabled(levels, l) == l \in DOMAIN levels /\ levels[l]

\* a slip in the floor: an event at the floor is dropped as well
BeforeSinceInclusive(node, since) == since # 0 /\ Number(node.timestamp) <= since

\* filter.since && Number(node.timestamp) < filter.since
BeforeSince(node, since) == since # 0 /\ Number(node.timestamp) < since

\* node.stepKey is truthy: neither null nor the empty string
HasStepKey(node) == node.stepKey # Null /\ node.stepKey[1] # << >>

\* a slip in the type entry: the tag name is compared as it is spelled
MatchesValueNoFold(node, f, steps) ==
  IF f.token = "query"
  THEN HasStepKey(node) /\ \E k \in 1..Len(steps) : steps[k] = node.stepKey[1]
  ELSE IF f.token = "step"
  THEN HasStepKey(node) /\ node.stepKey[1] = f.value
  ELSE IF f.token = "type"
  THEN Includes(TypenameChars(node.__typename), f.value)
  ELSE Includes(ToLowerCase(node.message), ToLowerCase(f.value))

\* the callback of filter.values.every; f.token is "" where the entry has none
MatchesValue(node, f, steps) ==
  IF f.token = "query"
  THEN HasStepKey(node) /\ \E k \in 1..Len(steps) : steps[k] = node.stepKey[1]
  ELSE IF f.token = "step"
  THEN HasStepKey(node) /\ node.stepKey[1] = f.value
  ELSE IF f.token = "type"
  THEN Includes(ToLowerCase(TypenameChars(node.__typename)), f.value)
  ELSE Includes(ToLowerCase(node.message), ToLowerCase(f.value))

\* the callback of nodes.filter
FilterNode(node, f, steps) ==
  /\ LevelEnabled(f.levels, EffectiveLevel(node))
  /\ ~BeforeSince(node, f.since)
  /\ \/ Len(f.values) = 0
     \/ \A k \in 1..Len(f.values) : MatchesValue(node, f.values[k], steps)

\* render: the argument of this.props.children
Render(stateNodes, f, steps) ==
  IF stateNodes = Null
  THEN [allNodes |-> << >>, filteredNodes |-> << >>, loaded |-> FALSE]
  ELSE [allNodes |-> stateNodes[1],
        filteredNodes |-> SelectSeq(stateNodes[1], LAMBDA node : FilterNode(node, f, steps)),
        loaded |-> TRUE]

\* ------------------------------------------------------------------------
\* onHandleMessages
\* ------------------------------------------------------------------------
\* `csk${n}`
ClientsideKey(n) == "csk" \o ToString(n)

\* a slip in the key: the index within the message is left out
AssignKeysNoIdx(messages, length) ==
  [i \in 1..Len(messages) |->
     [f \in DOMAIN messages[i] \cup {"clientsideKey"} |->
        IF f = "clientsideKey" THEN ClientsideKey(length) ELSE messages[i][f]]]

\* a slip in the key: the index within the message is counted from 1
AssignKeysFromOne(messages, length) ==
  [i \in 1..Len(messages) |->
     [f \in DOMAIN messages[i] \cup {"clientsideKey"} |->
        IF f = "clientsideKey" THEN ClientsideKey(length + i)
        ELSE messages[i][f]]]

\* msg.pipelineRunLogs.messages.map((m, idx) =>
\*   Object.assign(m, {clientsideKey: `csk${nextNodes.length + idx}`}))
\* (idx is 0-based in the source, sequences are 1-based here)
AssignKeys(messages, length) ==
  [i \in 1..Len(messages) |->
     [f \in DOMAIN messages[i] \cup {"clientsideKey"} |->
        IF f = "clientsideKey" THEN ClientsideKey(length + (i - 1))
        ELSE messages[i][f]]]

\* a slip in the scan: the first marker is kept, later ones are ignored
RECURSIVE ScanStatusKeepFirst(_, _)
ScanStatusKeepFirst(messages, nextPipelineStatus) ==
  IF messages = << >> THEN nextPipelineStatus
  ELSE LET t == Head(messages).__typename
           s == IF nextPipelineStatus # Null THEN nextPipelineStatus
                ELSE IF t = "PipelineStartEvent" THEN Some("STARTED")
                ELSE IF t = "PipelineSuccessEvent" THEN Some("SUCCESS")
                ELSE IF t = "PipelineFailureEvent" \/ t = "PipelineInitFailureEvent"
                     THEN Some("FAILURE")
                ELSE nextPipelineStatus
       IN ScanStatusKeepFirst(Tail(messages), s)

\* the inner for loop: the status after scanning the events of one message
RECURSIVE ScanStatus(_, _)
ScanStatus(messages, nextPipelineStatus) ==
  IF messages = << >> THEN nextPipelineStatus
  ELSE LET t == Head(messages).__typename
           s == IF t = "PipelineStartEvent" THEN Some("STARTED")
                ELSE IF t = "PipelineSuccessEvent" THEN Some("SUCCESS")
                ELSE IF t = "PipelineFailureEvent" \/ t = "PipelineInitFailureEvent"
                     THEN Some("FAILURE")
                ELSE nextPipelineStatus
       IN ScanStatus(Tail(messages), s)

\* a slip in the loop: a failure message is skipped (continue for break)
RECURSIVE HandleLoopSkipFailure(_, _, _, _)
HandleLoopSkipFailure(messages, i, nextNodes, nextPipelineStatus) ==
  IF i > Len(messages)
  THEN [nextNodes |-> nextNodes, nextPipelineStatus |-> nextPipelineStatus]
  ELSE IF messages[i].__typename = "PipelineRunLogsSubscriptionFailure"
  THEN HandleLoopSkipFailure(messages, i + 1, nextNodes, nextPipelineStatus)
  ELSE HandleLoopSkipFailure(messages, i + 1,
                  nextNodes \o AssignKeys(messages[i].messages, Len(nextNodes)),
                  ScanStatus(messages[i].messages, nextPipelineStatus))

\* the outer for loop over the batch, from message i on
RECURSIVE HandleLoop(_, _, _, _)
HandleLoop(messages, i, nextNodes, nextPipelineStatus) ==
  IF i > Len(messages)
  THEN [nextNodes |-> nextNodes, nextPipelineStatus |-> nextPipelineStatus]
  ELSE IF messages[i].__typename = "PipelineRunLogsSubscriptionFailure"
  THEN [nextNodes |-> nextNodes, nextPipelineStatus |-> nextPipelineStatus]
  ELSE HandleLoop(messages, i + 1,
                  nextNodes \o AssignKeys(messages[i].messages, Len(nextNodes)),
                  ScanStatus(messages[i].messages, nextPipelineStatus))

\* a slip in the reset: the first response does not discard the local state
InitialNextNodesNoReset(stateNodes, isFirstResponse) ==
  IF stateNodes = Null THEN << >> ELSE stateNodes[1]

\* a slip in the reset: every batch discards the local state
InitialNextNodesAlwaysEmpty(stateNodes, isFirstResponse) == << >>

\* const nextNodes = isFirstResponse ? [] : [...(this.state.nodes || [])]
InitialNextNodes(stateNodes, isFirstResponse) ==
  IF isFirstResponse THEN << >>
  ELSE IF stateNodes = Null THEN << >> ELSE stateNodes[1]

\* a slip in the lookup: a missing fragment is created
WriteFragmentAlways(c, id, status) ==
  IF id \notin DOMAIN c THEN c
  ELSE [c EXCEPT ![id] =
          Some([status |-> status,
                canTerminate |->
                  IF status = "FAILURE" \/ status = "SUCCESS" \/ c[id] = Null
                  THEN FALSE ELSE c[id][1].canTerminate])]

\* a slip in the write: canTerminate is cleared whatever the status
SyncAlwaysClear(c, id, status) ==
  IF id \notin DOMAIN c \/ c[id] = Null THEN c
  ELSE [c EXCEPT ![id] = Some([status |-> status, canTerminate |-> FALSE])]

\* a slip in the write: canTerminate is recomputed from the status written
SyncRecomputeCanTerminate(c, id, status) ==
  IF id \notin DOMAIN c \/ c[id] = Null THEN c
  ELSE [c EXCEPT ![id] =
          Some([status |-> status,
                canTerminate |-> ~(status = "FAILURE" \/ status = "SUCCESS")])]

\* syncPipelineStatusToApolloCache: the cache after the call
SyncPipelineStatusToApolloCache(c, id, status) ==
  IF id \notin DOMAIN c \/ c[id] = Null THEN c
  ELSE [c EXCEPT ![id] =
          Some([status |-> status,
                canTerminate |->
                  IF status = "FAILURE" \/ status = "SUCCESS"
                  THEN FALSE ELSE c[id][1].canTerminate])]

\* if (nextPipelineStatus) { this.syncPipelineStatusToApolloCache(...) }
SyncIfStatus(c, id, nextPipelineStatus) ==
  IF nextPipelineStatus # Null
  THEN SyncPipelineStatusToApolloCache(c, id, nextPipelineStatus[1])
  ELSE c

\* a slip in the order: the state is set before the cache is written
SetStateThenSync == <<"setState", "sync">>

\* the two statements that follow the loop, in the order of the source
HandlerOrder == <<"sync", "setState">>

\* one of the statements that follow the loop; r holds the locals of the
\* handler, and setState renders before it returns
Statement(name, r) ==
  IF name = "sync"
  THEN /\ cache' = SyncIfStatus(cache, runId, r.nextPipelineStatus)
       /\ UNCHANGED <<nodes, rendered>>
  ELSE /\ nodes' = Some(r.nextNodes)
       /\ rendered' = Render(nodes', filter, selectedSteps)
       /\ UNCHANGED cache

\* onHandleMessages up to the first statement after the loop
OnHandleMessages(messages, isFirstResponse) ==
  LET r == HandleLoop(messages, 1, InitialNextNodes(nodes, isFirstResponse), Null)
  IN /\ Statement(HandlerOrder[1], r)
     /\ handler' = Some(r)

\* onHandleMessages from there to its return
OnHandleMessagesReturn ==
  /\ Statement(HandlerOrder[2], handler[1])
  /\ handler' = Null

\* ------------------------------------------------------------------------
\* subscribeToRun / unsubscribeFromRun
\* ------------------------------------------------------------------------
\* DirectGraphQLSubscription.close()
Close(ss, i) == [ss EXCEPT ![i].closed = TRUE, ![i].fresh = FALSE, ![i].queue = << >>]

\* a slip in the rebind: the old subscription is left open
UnsubscribeNoClose(ss, sub) == ss

\* unsubscribeFromRun: the subscriptions after the call
UnsubscribeFromRun(ss, sub) == IF sub # 0 THEN Close(ss, sub) ELSE ss

\* unsubscribeFromRun: the channels it calls close() on
CloseCalls(sub) == IF sub # 0 THEN << sub >> ELSE << >>

\* new DirectGraphQLSubscription(..., {runId, after: null}, ...)
NewSubscription(id) == [runId |-> id, closed |-> FALSE, fresh |-> TRUE, queue |-> << >>]

\* this.setState({nodes: []}) when a subscription existed
NodesAfterResubscribe(stateNodes, sub) == IF sub # 0 THEN Some(<< >>) ELSE stateNodes

SubscribeToRun(id) ==
  LET ss == IF subscription # 0 THEN UnsubscribeFromRun(subs, subscription) ELSE subs
  IN /\ nodes' = NodesAfterResubscribe(nodes, subscription)
     /\ rendered' = Render(nodes', filter, selectedSteps)
     /\ IF id = ""
        THEN subs' = ss /\ subscription' = subscription
        ELSE subs' = Append(ss, NewSubscription(id)) /\ subscription' = Len(ss) + 1
     /\ session' = "none"
     /\ delivered' = << >>

\* ------------------------------------------------------------------------
\* Actions
\* ------------------------------------------------------------------------
\* the channels that are open
OpenSubs == {i \in 1..Len(subs) : ~subs[i].closed}

\* the record of a step: the handler, its arguments, the state it starts in
\* and the close() calls it makes
Step(op, messages, isFirstResponse) ==
  [op |-> op, messages |-> messages, isFirstResponse |-> isFirstResponse,
   runId |-> runId, nodes |-> nodes, cache |-> cache, subscription |-> subscription,
   open |-> OpenSubs, closes |-> << >>]

\* PipelineRun fragments the cache can hold for a run
Fragments ==
  {[status |-> "NOT_STARTED", canTerminate |-> TRUE],
   [status |-> "STARTED", canTerminate |-> TRUE],
   [status |-> "STARTED", canTerminate |-> FALSE],
   [status |-> "SUCCESS", canTerminate |-> FALSE],
   [status |-> "FAILURE", canTerminate |-> FALSE]}

Init ==
  /\ pc = "constructed"
  /\ runId \in PropRunIds
  /\ nodes = Null
  /\ subs = << >>
  /\ subscription = 0
  /\ cache = [r \in RunIds |->
               IF r = "r1" THEN Some([status |-> "NOT_STARTED", canTerminate |-> TRUE])
               ELSE Null]
  /\ last = Step("constructor", << >>, FALSE)
  /\ session = "none"
  /\ delivered = << >>
  /\ filter = GetDefaultLogFilter
  /\ selectedSteps = << >>
  /\ rendered = Render(nodes, filter, selectedSteps)
  /\ handler = Null

ComponentDidMount ==
  /\ pc = "constructed"
  /\ pc' = "mounted"
  /\ SubscribeToRun(runId)
  /\ last' = Step("componentDidMount", << >>, FALSE)
  /\ UNCHANGED <<runId, cache, filter, selectedSteps, handler>>

\* the parent re-renders the component with props.runId = id
ComponentDidUpdate(id) ==
  /\ pc = "mounted"
  /\ handler = Null
  /\ id # "" /\ id # runId => Len(subs) < MaxSubs
  /\ runId' = id
  /\ IF runId # id
     THEN SubscribeToRun(id)
     ELSE UNCHANGED <<nodes, subs, subscription, session, delivered, rendered>>
  /\ last' = [Step("componentDidUpdate", << >>, FALSE) EXCEPT
                !.closes = IF runId # id THEN CloseCalls(subscription) ELSE << >>]
  /\ UNCHANGED <<pc, cache, filter, selectedSteps, handler>>

ComponentWillUnmount ==
  /\ pc = "mounted"
  /\ handler = Null
  /\ pc' = "unmounted"
  /\ subs' = UnsubscribeFromRun(subs, subscription)
  /\ last' = [Step("componentWillUnmount", << >>, FALSE) EXCEPT
                !.closes = CloseCalls(subscription)]
  /\ UNCHANGED <<runId, nodes, subscription, cache, session, delivered,
                 filter, selectedSteps, rendered, handler>>

RECURSIVE AllEvents(_)
AllEvents(messages) ==
  IF messages = << >> THEN << >>
  ELSE Head(messages).messages \o AllEvents(Tail(messages))

HasFailure(messages) ==
  \E i \in 1..Len(messages) :
     messages[i].__typename = "PipelineRunLogsSubscriptionFailure"

\* the socket of channel i receives the payloads b, which wait for the flush
ChannelReceive(i, b) ==
  /\ handler = Null
  /\ ~subs[i].closed
  /\ subs[i].queue = << >>
  /\ Len(InitialNextNodes(nodes, subs[i].fresh)) + CountEvents(b) <= MaxNodes
  /\ subs' = [subs EXCEPT ![i].queue = b]
  /\ last' = Step("receive", << >>, FALSE)
  /\ UNCHANGED <<pc, runId, nodes, subscription, cache, session, delivered,
                 filter, selectedSteps, rendered, handler>>

\* the channel i flushes its queue to the component: the first flush after
\* a (re)connect is the first response. The handler runs up to the first
\* statement after its loop
ChannelFlush(i) ==
  /\ handler = Null
  /\ ~subs[i].closed
  /\ subs[i].queue # << >>
  /\ OnHandleMessages(subs[i].queue, subs[i].fresh)
  /\ subs' = [subs EXCEPT ![i].fresh = FALSE, ![i].queue = << >>]
  /\ last' = Step("handling", subs[i].queue, subs[i].fresh)
  /\ UNCHANGED <<pc, runId, subscription, session, delivered, filter, selectedSteps>>

\* the handler under way runs to its return: nothing else runs in between
ChannelFlushReturn ==
  /\ handler # Null
  /\ OnHandleMessagesReturn
  /\ last' = [last EXCEPT !.op = "onHandleMessages"]
  /\ IF HasFailure(last.messages) \/ (last.isFirstResponse /\ session # "none")
        \/ session = "broken"
     THEN session' = "broken" /\ delivered' = << >>
     ELSE /\ session' = IF session = "none" THEN "first" ELSE "later"
          /\ delivered' = delivered \o AllEvents(last.messages)
  /\ UNCHANGED <<pc, runId, subs, subscription, filter, selectedSteps>>

\* the socket of channel i drops and is re-opened
ChannelReconnect(i) ==
  /\ handler = Null
  /\ ~subs[i].closed
  /\ ~subs[i].fresh
  /\ subs[i].queue = << >>
  /\ subs' = [subs EXCEPT ![i].fresh = TRUE]
  /\ last' = Step("reconnect", << >>, FALSE)
  /\ UNCHANGED <<pc, runId, nodes, subscription, cache, session, delivered,
                 filter, selectedSteps, rendered, handler>>

Next ==
  \/ ComponentDidMount
  \/ \E id \in PropRunIds : ComponentDidUpdate(id)
  \/ ComponentWillUnmount
  \/ \E i \in {j \in 1..Len(subs) : ~subs[j].closed} :
        \E b \in BatchesOf[subs[i].runId] : ChannelReceive(i, b)
  \/ \E i \in 1..Len(subs) : ChannelFlush(i)
  \/ ChannelFlushReturn
  \/ \E i \in 1..Len(subs) : ChannelReconnect(i)

Spec == Init /\ [][Next]_vars

\* ------------------------------------------------------------------------
\* A single batch, of every event kind, handled in every state of a session
\* ------------------------------------------------------------------------
\* accumulated sequences of run r a session can hold before the batch
NodesBefore(r) ==
  {Some(AssignKeys(es, 0)) : es \in SeqUpTo(EventsOf(r, Typenames), MaxNodes - 1)}

InitSingle ==
  /\ pc = "mounted"
  /\ runId \in RunIds
  /\ \E f \in BOOLEAN : \E b \in SingleBatchesOf[runId] :
        subs = << [runId |-> runId, closed |-> FALSE, fresh |-> f, queue |-> b] >>
  /\ subscription = 1
  /\ nodes \in NodesBefore(runId) \cup (IF subs[1].fresh THEN {Null} ELSE {})
  /\ Len(InitialNextNodes(nodes, subs[1].fresh)) + CountEvents(subs[1].queue) <= MaxNodes
  /\ cache \in [RunIds -> {Null} \cup {Some(f) : f \in Fragments}]
  /\ cache["r2"] \in {Null, Some([status |-> "NOT_STARTED", canTerminate |-> TRUE])}
  /\ last = Step("receive", << >>, FALSE)
  /\ session = "broken"
  /\ delivered = << >>
  /\ filter = GetDefaultLogFilter
  /\ selectedSteps = << >>
  /\ rendered = Render(nodes, filter, selectedSteps)
  /\ handler = Null

NextSingle ==
  \/ \E i \in 1..Len(subs) : ChannelFlush(i)
  \/ ChannelFlushReturn

SpecSingle == InitSingle /\ [][NextSingle]_vars

\* ------------------------------------------------------------------------
\* The filter of render, for every accumulated sequence and every filter
\* ------------------------------------------------------------------------
\* events as the server sends them: a timestamp in decimal digits, a
\* message, a step key or null, a level on log messages only
FilterEvents ==
  {[__typename |-> "LogMessageEvent", runId |-> "r1", level |-> "INFO",
    timestamp |-> <<"4">>, stepKey |-> Null, message |-> <<"A", "b">>],
   [__typename |-> "LogMessageEvent", runId |-> "r1", level |-> "DEBUG",
    timestamp |-> <<"1", "0">>, stepKey |-> Some(<<"s">>), message |-> <<"b">>],
   [__typename |-> "StepMaterializationEvent", runId |-> "r1",
    timestamp |-> <<"5">>, stepKey |-> Some(<<"s">>), message |-> <<"a", "B">>],
   [__typename |-> "EngineEvent", runId |-> "r1",
    timestamp |-> <<"1", "0">>, stepKey |-> Some(<<"S">>), message |-> <<"a">>],
   [__typename |-> "PipelineStartEvent", runId |-> "r1",
    timestamp |-> <<"4">>, stepKey |-> Null, message |-> <<"b">>]}

\* entries of filter.values: each recognised token, no token, an unknown token
FilterValues ==
  {[token |-> "query", value |-> << >>],
   [token |-> "step", value |-> <<"s">>],
   [token |-> "type", value |-> <<"e", "n", "g", "i", "n", "e">>],
   [token |-> "type", value |-> <<"E", "n", "g", "i", "n", "e">>],
   [token |-> "type", value |-> <<"m", "a", "t", "e", "r", "i", "a", "l", "i", "z",
                                  "a", "t", "i", "o", "n">>],
   [token |-> "", value |-> <<"A", "B">>],
   [token |-> "foo", value |-> <<"b">>]}

\* filter.levels: every level on, the default, and a map that turns INFO
\* off and names neither EVENT nor the levels above INFO
FilterLevels ==
  {[key \in LogLevel |-> TRUE],
   GetDefaultLogFilter.levels,
   [key \in {"DEBUG", "INFO"} |-> key = "DEBUG"]}

Filters ==
  {[since |-> t, values |-> v, levels |-> l] :
     t \in {0, 5}, v \in SeqUpTo(FilterValues, MaxValues), l \in FilterLevels}

SelectedSteps == {<< >>, << <<"s">> >>}

InitFilter ==
  /\ pc = "mounted"
  /\ runId = "r1"
  /\ subs = << [runId |-> "r1", closed |-> FALSE, fresh |-> FALSE, queue |-> << >>] >>
  /\ subscription = 1
  /\ nodes \in {Null} \cup {Some(AssignKeys(es, 0)) : es \in SeqUpTo(FilterEvents, MaxNodes)}
  /\ cache = [r \in RunIds |-> Null]
  /\ last = Step("onHandleMessages", << >>, FALSE)
  /\ session = "broken"
  /\ delivered = << >>
  /\ filter = GetDefaultLogFilter
  /\ selectedSteps = << >>
  /\ rendered = Render(nodes, filter, selectedSteps)
  /\ handler = Null

\* the parent re-renders the component with the props filter and selectedSteps
Rerender(f, steps) ==
  /\ pc = "mounted"
  /\ handler = Null
  /\ filter' = f
  /\ selectedSteps' = steps
  /\ rendered' = Render(nodes, f, steps)
  /\ last' = Step("render", << >>, FALSE)
  /\ UNCHANGED <<pc, runId, nodes, subs, subscription, cache, session, delivered, handler>>

\* one re-render of each state: render keeps nothing from one call to the next
NextFilter ==
  /\ last.op # "render"
  /\ \E f \in Filters : \E steps \in SelectedSteps : Rerender(f, steps)

SpecFilter == InitFilter /\ [][NextFilter]_vars

\* ------------------------------------------------------------------------
\* Vocabulary of the properties
\* ------------------------------------------------------------------------
IsFailure(msg) == msg.__typename = "PipelineRunLogsSubscriptionFailure"

\* the messages of a batch that precede its first subscription-failure message
BeforeFailure(messages) ==
  LET F == {i \in 1..Len(messages) : IsFailure(messages[i])}
  IN IF F = {} THEN messages
     ELSE SubSeq(messages, 1, (CHOOSE i \in F : \A j \in F : i <= j) - 1)

\* an accumulated sequence without its keys
Raw(ns) ==
  [i \in 1..Len(ns) |-> [f \in DOMAIN ns[i] \ {"clientsideKey"} |-> ns[i][f]]]

\* the keys of an accumulated sequence are csk0, csk1, ... in order
KeysInOrder(ns) == \A i \in 1..Len(ns) : ns[i].clientsideKey = "csk" \o ToString(i - 1)

\* the last step was a batch handled by onHandleMessages
Handled == last.op = "onHandleMessages"

\* the accumulated sequence the last step started with
Prior == IF last.nodes = Null THEN << >> ELSE last.nodes[1]

\* the status a lifecycle marker stands for
MarkerStatus(t) ==
  CASE t = "PipelineStartEvent" -> "STARTED"
    [] t = "PipelineSuccessEvent" -> "SUCCESS"
    [] t = "PipelineFailureEvent" -> "FAILURE"
    [] t = "PipelineInitFailureEvent" -> "FAILURE"

\* the typenames of the lifecycle markers among the events of a batch that
\* were accumulated, in scan order
Markers(messages) ==
  SelectSeq([i \in 1..Len(AllEvents(BeforeFailure(messages))) |->
               AllEvents(BeforeFailure(messages))[i].__typename],
            LAMBDA t : t \in MarkerTypenames)

\* the status the last batch stands for: Null, or Some(status of its last marker)
Derived ==
  LET ms == Markers(last.messages)
  IN IF ms = << >> THEN Null ELSE Some(MarkerStatus(ms[Len(ms)]))

\* the last step was a rebind: a new run id on a component that held a subscription
Rebound == last.op = "componentDidUpdate" /\ last.runId # runId /\ last.subscription # 0

\* the cache the last batch calls for: the cache it started with, the status
\* of its last accumulated marker written into the record of the bound run
\* if there is such a marker and such a record
ExpectedCache ==
  IF Derived = Null \/ last.runId \notin RunIds THEN last.cache
  ELSE IF last.cache[last.runId] = Null THEN last.cache
  ELSE [last.cache EXCEPT ![last.runId] =
          Some([status |-> Derived[1],
                canTerminate |-> IF Derived[1] \in {"SUCCESS", "FAILURE"}
                                 THEN FALSE ELSE @[1].canTerminate])]

\* the accumulated sequence the last batch calls for, without the keys
ExpectedRaw ==
  (IF last.isFirstResponse THEN << >> ELSE Raw(Prior))
    \o AllEvents(BeforeFailure(last.messages))

\* the last step rendered the accumulated sequence under the props filter
Rendered == last.op = "render"

\* the event n is in the filtered view the children function received
Kept(n) == \E j \in 1..Len(rendered.filteredNodes) : rendered.filteredNodes[j] = n

\* the number a timestamp of the events stands for
Millis(ts) ==
  CASE ts = <<"4">> -> 4
    [] ts = <<"5">> -> 5
    [] ts = <<"1", "0">> -> 10

\* the effective level of an event: its own level if it has one, else EVENT
LevelOf(n) == IF "level" \in DOMAIN n THEN n.level ELSE "EVENT"

\* the props filter maps the effective level of n to true
LevelOn(n) == LevelOf(n) \in DOMAIN filter.levels /\ filter.levels[LevelOf(n)]

\* n is not older than the floor of the props filter, if it has one
SinceOk(n) == filter.since = 0 \/ Millis(n.timestamp) >= filter.since

\* the entry e of filter.values matches the event n
EntryMatches(n, e) ==
  CASE e.token = "query" ->
         /\ n.stepKey # Null /\ n.stepKey[1] # << >>
         /\ \E k \in 1..Len(selectedSteps) : selectedSteps[k] = n.stepKey[1]
    [] e.token = "step" -> n.stepKey = Some(e.value)
    [] e.token = "type" -> Includes(ToLowerCase(TypenameChars(n.__typename)), e.value)
    [] OTHER -> Includes(ToLowerCase(n.message), ToLowerCase(e.value))

\* every entry of filter.values matches the event n
ValuesOk(n) == \A k \in 1..Len(filter.values) : EntryMatches(n, filter.values[k])

\* ------------------------------------------------------------------------
\* Properties
\* ------------------------------------------------------------------------
\* C1: while the batches since the bind were a first response followed only
\* by non-first responses, none holding a subscription failure, the
\* accumulated sequence is the concatenation of all their events in delivery
\* order and its keys are csk0..csk(n-1).
C1_Concatenation ==
  session \in {"first", "later"} =>
    /\ nodes # Null
    /\ Raw(nodes[1]) = delivered
    /\ KeysInOrder(nodes[1])

C1_Witness ==
  /\ session = "later"
  /\ Handled
  /\ Len(Prior) >= 1
  /\ CountEvents(last.messages) >= 1
  /\ Len(delivered) = Len(Prior) + CountEvents(last.messages)

\* C2: after a batch handled as first response the accumulated sequence holds
\* only the events of that batch (those up to a failure message, all of them
\* when there is none), keyed csk0, csk1, ..., whatever was accumulated before.
C2_FirstResponseResets ==
  Handled /\ last.isFirstResponse =>
    /\ nodes # Null
    /\ Raw(nodes[1]) = AllEvents(BeforeFailure(last.messages))
    /\ KeysInOrder(nodes[1])

C2_Witness ==
  /\ Handled /\ last.isFirstResponse
  /\ Len(Prior) >= 1
  /\ ~HasFailure(last.messages)
  /\ CountEvents(last.messages) >= 1
  /\ Raw(AllNodes) # Raw(Prior)

\* C3 as stated: a batch that contains a subscription-failure message adds no
\* event (the sequence is the prior one, or empty on a first response) and
\* leaves the cache alone.
C3_AnyFailureAddsNothing ==
  Handled /\ HasFailure(last.messages) =>
    /\ nodes = Some(IF last.isFirstResponse THEN << >> ELSE Prior)
    /\ cache = last.cache

\* C3 amended: a batch whose first message is a subscription failure adds no
\* event (the sequence is the prior one, or empty on a first response) and
\* leaves the cache alone; in any batch the messages from the failure message
\* on add nothing.
C3_LeadingFailureAddsNothing ==
  Handled /\ HasFailure(last.messages) =>
    /\ IsFailure(last.messages[1]) =>
         /\ nodes = Some(IF last.isFirstResponse THEN << >> ELSE Prior)
         /\ cache = last.cache
    /\ Len(AllNodes) = (IF last.isFirstResponse THEN 0 ELSE Len(Prior))
                         + CountEvents(BeforeFailure(last.messages))

C3_Witness ==
  /\ Handled /\ last.isFirstResponse
  /\ IsFailure(last.messages[1])
  /\ Len(last.messages) >= 2 /\ CountEvents(last.messages) >= 1
  /\ Len(Prior) >= 1
  /\ nodes = Some(<< >>)

\* C4: when the fragment of the run exists, the status in the cache after a
\* batch is the one of the last lifecycle marker among the batch's accumulated
\* events; a batch without such a marker leaves the cache as it was.
C4_LastMarkerWins ==
  Handled /\ last.cache[last.runId] # Null =>
    IF Derived = Null THEN cache = last.cache
    ELSE /\ cache[runId] # Null
         /\ cache[runId][1].status = Derived[1]
         /\ \A r \in RunIds \ {runId} : cache[r] = last.cache[r]

C4_Witness ==
  /\ Handled /\ last.cache[last.runId] # Null
  /\ Len(Markers(last.messages)) >= 2
  /\ Markers(last.messages)[1] = "PipelineSuccessEvent"
  /\ Derived = Some("FAILURE")
  /\ cache[runId][1].status = "FAILURE"

\* C5: a write of SUCCESS or FAILURE sets canTerminate to false, a write of
\* STARTED keeps the value canTerminate had, and without a write canTerminate
\* is not changed.
C5_CanTerminate ==
  Handled /\ last.cache[last.runId] # Null =>
    /\ cache[runId] # Null
    /\ cache[runId][1].canTerminate =
         IF Derived \in {Some("SUCCESS"), Some("FAILURE")} THEN FALSE
         ELSE last.cache[runId][1].canTerminate

C5_Witness ==
  /\ Handled /\ last.cache[last.runId] # Null
  /\ last.cache[runId][1].canTerminate
  /\ Derived = Some("STARTED")
  /\ cache[runId][1] = [status |-> "STARTED", canTerminate |-> TRUE]

\* C6: a batch handled while the cache holds no fragment for the run leaves
\* the cache unchanged and still accumulates its events.
C6_NoRecordNoWrite ==
  Handled /\ last.cache[last.runId] = Null =>
    /\ cache = last.cache
    /\ nodes # Null
    /\ Raw(nodes[1]) = Raw(IF last.isFirstResponse THEN << >> ELSE Prior)
                         \o AllEvents(BeforeFailure(last.messages))

C6_Witness ==
  /\ Handled /\ last.cache[last.runId] = Null
  /\ Derived # Null
  /\ cache[runId] = Null
  /\ Len(AllNodes) >= 1

\* C7: at most one subscription is open at any time, a rebind leaves the
\* accumulated sequence empty, and every accumulated event belongs to the run
\* the component is bound to: the sequence never mixes two runs.
C7_OneChannelNoMix ==
  /\ Cardinality(OpenSubs) <= 1
  /\ Rebound => AllNodes = << >>
  /\ \A i \in 1..Len(AllNodes) : AllNodes[i].runId = runId

C7_Witness ==
  /\ Len(subs) >= 2
  /\ subs[1].closed /\ ~subs[2].closed
  /\ subs[1].runId # subs[2].runId
  /\ Handled
  /\ Len(Prior) >= 1
  /\ Len(AllNodes) > Len(Prior)

\* C8: after a rebind the old channel is closed, the accumulated sequence is
\* empty and the consumer is given loaded = false.
C8_RebindUnloads ==
  Rebound =>
    /\ subs[last.subscription].closed
    /\ AllNodes = << >>
    /\ ~Loaded

\* C9: loaded is false from a bind until its first batch and true from then
\* on; it goes from true to false only on an unbind or rebind.
C9_LoadedLifecycle ==
  /\ [](/\ (pc = "mounted" /\ session = "none") => ~Loaded
        /\ session # "none" => Loaded)
  /\ [][Loaded /\ ~Loaded' =>
          last'.op \in {"componentDidUpdate", "componentWillUnmount"}]_vars

\* C10 as stated: a batch with a subscription failure that is not the first
\* response leaves the accumulated sequence and loaded as they were and the
\* channel open.
C10_FailureLeavesState ==
  Handled /\ HasFailure(last.messages) /\ ~last.isFirstResponse =>
    /\ nodes = last.nodes
    /\ subscription # 0 /\ ~subs[subscription].closed

\* C10 amended: such a batch keeps every previously accumulated event, with
\* its key, at its place (the events of the messages before the failure
\* message follow them; the sequence is unchanged when the failure message
\* comes first), keeps loaded and leaves the channel open.
C10_FailureKeepsPrior ==
  Handled /\ HasFailure(last.messages) /\ ~last.isFirstResponse =>
    /\ Loaded = (last.nodes # Null)
    /\ Len(AllNodes) >= Len(Prior)
    /\ SubSeq(AllNodes, 1, Len(Prior)) = Prior
    /\ IsFailure(last.messages[1]) => nodes = last.nodes
    /\ subscription # 0 /\ ~subs[subscription].closed

C10_Witness ==
  /\ Handled /\ HasFailure(last.messages) /\ ~last.isFirstResponse
  /\ Len(Prior) >= 1
  /\ IsFailure(last.messages[1])
  /\ nodes = last.nodes

\* C11: once the record of a run says it can no longer be terminated (the
\* projector wrote SUCCESS or FAILURE into it), no step sets canTerminate
\* back to true, whatever status later batches write, a start marker
\* replayed after a reconnect included.
C11_NeverTerminableAgain ==
  [][\A r \in RunIds :
       cache[r] # Null /\ ~cache[r][1].canTerminate =>
         cache'[r] # Null /\ ~cache'[r][1].canTerminate]_vars

\* a first response after a reconnect replayed the start marker over a
\* record that held SUCCESS: the status is STARTED again, canTerminate is not
C11_Witness ==
  /\ Handled /\ last.isFirstResponse
  /\ last.cache[runId] # Null /\ last.cache[runId][1].status = "SUCCESS"
  /\ cache[runId] # Null /\ cache[runId][1].status = "STARTED"
  /\ ~cache[runId][1].canTerminate

\* C12 as stated: unbinding closes the active channel, and where no channel
\* is open (none was ever held, or the one held is closed already) it calls
\* close on no channel and changes no state.
C12_UnbindIdempotent ==
  last.op = "componentWillUnmount" =>
    /\ \A i \in last.open : subs[i].closed
    /\ last.open = {} =>
         /\ last.closes = << >>
         /\ nodes = last.nodes /\ cache = last.cache
         /\ runId = last.runId /\ subscription = last.subscription

C14_Identity ==
  /\ Rendered /\ Loaded
  /\ filter.values = << >> /\ filter.since = 0 /\ selectedSteps = << >>
  /\ \A l \in LogLevel : l \in DOMAIN filter.levels /\ filter.levels[l]
  => rendered.filteredNodes = AllNodes

\* the identity filter applied to a DEBUG message followed by a structured event
C14_Witness ==
  /\ Rendered /\ Len(AllNodes) = 2
  /\ filter.values = << >> /\ filter.since = 0 /\ selectedSteps = << >>
  /\ \A l \in LogLevel : l \in DOMAIN filter.levels /\ filter.levels[l]
  /\ LevelOf(AllNodes[1]) = "DEBUG" /\ LevelOf(AllNodes[2]) = "EVENT"
  /\ rendered.filteredNodes = AllNodes

\* C15: an event whose effective level the filter maps to false, or does
\* not name, is not in the filtered view, whatever the floor and the values;
\* under the default levels, with no floor and no values, the filtered view
\* is the accumulated sequence without its DEBUG messages.
C15_LevelStage ==
  Rendered /\ Loaded =>
    /\ \A i \in 1..Len(AllNodes) : ~LevelOn(AllNodes[i]) => ~Kept(AllNodes[i])
    /\ filter = GetDefaultLogFilter =>
         rendered.filteredNodes =
           SelectSeq(AllNodes, LAMBDA n : ~("level" \in DOMAIN n /\ n.level = "DEBUG"))

\* a structured event dropped because the filter does not name EVENT, though
\* the floor and the values let it through
C15_Witness ==
  /\ Rendered /\ Len(AllNodes) >= 1
  /\ LevelOf(AllNodes[1]) = "EVENT" /\ "EVENT" \notin DOMAIN filter.levels
  /\ SinceOk(AllNodes[1]) /\ ValuesOk(AllNodes[1])
  /\ ~Kept(AllNodes[1])

\* C16: under a floor other than 0 an event older than the floor is not in
\* the filtered view, whatever its level and the values; an event at or after
\* the floor that the other stages let through is in it; under a floor of 0
\* no event is dropped for its timestamp.
C16_SinceStage ==
  Rendered /\ Loaded =>
    \A i \in 1..Len(AllNodes) :
      /\ filter.since # 0 /\ Millis(AllNodes[i].timestamp) < filter.since
           => ~Kept(AllNodes[i])
      /\ (filter.since = 0 \/ Millis(AllNodes[i].timestamp) >= filter.since)
           /\ LevelOn(AllNodes[i]) /\ ValuesOk(AllNodes[i])
           => Kept(AllNodes[i])

\* a floor of 5: the event stamped 4 is dropped though its level is on and
\* there are no values, the events stamped 5 and 10 are kept
C16_Witness ==
  /\ Rendered /\ filter.since = 5 /\ filter.values = << >> /\ Len(AllNodes) = 2
  /\ \E i \in 1..2 : /\ AllNodes[i].timestamp = <<"4">>
                      /\ LevelOn(AllNodes[i]) /\ ~Kept(AllNodes[i])
  /\ \E i \in 1..2 : AllNodes[i].timestamp = <<"5">> /\ Kept(AllNodes[i])

\* C17: in a batch of several messages the handler stops at the first
\* subscription-failure message: the events of the messages after it are
\* not appended, and the status written is that of the last marker among the
\* events appended, so a marker after the failure message writes nothing.
C17_StopsAtFailure ==
  Handled /\ HasFailure(last.messages) /\ Len(last.messages) >= 2 =>
    /\ Raw(AllNodes) = ExpectedRaw
    /\ cache = ExpectedCache

\* a failure message followed by a message with a lifecycle marker, handled
\* where the run has a record: neither the sequence nor the record changed
C17_Witness ==
  /\ Handled /\ Len(last.messages) = 2 /\ ~last.isFirstResponse
  /\ IsFailure(last.messages[1])
  /\ ~IsFailure(last.messages[2]) /\ Len(last.messages[2].messages) = 1
  /\ last.messages[2].messages[1].__typename \in MarkerTypenames
  /\ last.cache[runId] # Null
  /\ nodes = last.nodes /\ cache = last.cache

\* C18: while a batch is being handled the consumer is not called before
\* the cache holds the status of the batch; when the handler returns the
\* consumer has the new sequence and the cache holds that status; and from a
\* handler under way the only step is its return, with no other batch taken.
C18_WriteBeforeCallback ==
  /\ [](/\ handler # Null <=> last.op = "handling"
        /\ last.op = "handling" =>
             /\ rendered = Render(last.nodes, filter, selectedSteps)
             /\ cache = ExpectedCache
        /\ last.op = "onHandleMessages" =>
             /\ rendered = Render(nodes, filter, selectedSteps)
             /\ Raw(rendered.allNodes) = ExpectedRaw
             /\ cache = ExpectedCache)
  /\ [][handler # Null =>
          /\ handler' = Null /\ last'.op = "onHandleMessages"
          /\ subs' = subs /\ cache' = cache]_vars

\* a handler under way: the status of the batch is in the cache, the
\* consumer still has the sequence from before the batch
C18_Witness ==
  /\ last.op = "handling" /\ handler # Null
  /\ CountEvents(last.messages) >= 1
  /\ cache # last.cache
  /\ rendered.allNodes = Prior /\ handler[1].nextNodes # Prior

\* C19: in every state the event at position i (from 0) of the accumulated
\* sequence carries the key csk<i>; the keys are pairwise distinct and the
\* last one is csk<length - 1>.
C19_KeysArePositions ==
  /\ \A i \in 1..Len(AllNodes) : AllNodes[i].clientsideKey = ClientsideKey(i - 1)
  /\ \A i, j \in 1..Len(AllNodes) :
        i # j => AllNodes[i].clientsideKey # AllNodes[j].clientsideKey
  /\ AllNodes # << >> =>
        AllNodes[Len(AllNodes)].clientsideKey = ClientsideKey(Len(AllNodes) - 1)

\* after a reconnect or a failure message: a batch whose second message is a
\* failure appended its first message's event to events held before
C19_Witness ==
  /\ Handled /\ session = "broken" /\ ~last.isFirstResponse
  /\ HasFailure(last.messages) /\ ~IsFailure(last.messages[1])
  /\ Len(Prior) >= 1 /\ Len(AllNodes) > Len(Prior)

\* C20: the cache changes only while a batch is handled; the record that
\* changes is that of the run bound at the time, which is the run of the
\* channel held and of every event of the batch, and the status written is
\* the one derived from that batch; the record of no other run changes.
C20_OwnRecordOnly ==
  /\ last.op \notin {"handling", "onHandleMessages"} => cache = last.cache
  /\ \A r \in RunIds :
        cache[r] # last.cache[r] =>
          /\ r = runId /\ r = last.runId
          /\ subscription # 0 /\ subs[subscription].runId = r
          /\ ~subs[subscription].closed
          /\ \A i \in 1..Len(AllEvents(last.messages)) :
                AllEvents(last.messages)[i].runId = r
          /\ Derived # Null /\ cache[r][1].status = Derived[1]

\* the component was bound to r2 and then to r1: a batch of r1's channel
\* changed the record of r1
C20_Witness ==
  /\ Handled /\ Len(subs) = 2
  /\ subs[1].runId = "r2" /\ subs[2].runId = "r1"
  /\ cache["r1"] # last.cache["r1"]
  /\ cache["r2"] = last.cache["r2"]

====
